---- MODULE Spec2Model ----
(***************************************************************************)
(* Model of the dataflow_analytics aggregation-and-summary pipeline:       *)
(*   storage.py               S3Storage (object store adapter)             *)
(*   jobs/transform_events.py transform_events / write_metrics_jsonl /     *)
(*                            run_job (Spark aggregation job)              *)
(*   analytics.py             AnalyticsService.load_metrics / summary      *)
(*   api/app.py               /analytics/metrics, /analytics/summary and   *)
(*                            the catch-all exception handler              *)
(*   rag.py                   DocumentStore._load_documents / search       *)
(*                                                                         *)
(* Representation.                                                         *)
(*   An optional value (a dict key that may be missing, a nullable column, *)
(*   an S3 key that may hold no object) is a sequence of length 0 or 1.    *)
(*   A date TEXT is a tuple of integers <<y, m, d>> ("YYYY-MM-DD"); the    *)
(*   empty text is <<>>.  A date VALUE is a proleptic Gregorian ordinal.   *)
(*   A text object is the sequence of its lines (str.splitlines()).        *)
(***************************************************************************)
EXTENDS Integers, Sequences, FiniteSets, TLC

VARIABLES
    bucket_exists,  \* the S3 bucket exists
    object,         \* optional text stored at key("metrics_by_day.jsonl")
    store_up,       \* the store answers requests (FALSE: connectivity/auth failure)
    events,         \* content of the raw events file given to run_job
    ansi,           \* spark.sql.ansi.enabled of the Spark build (not set by the code)
    pc,             \* position of the run_job execution
    part_file,      \* optional text of the local part-*.json file
    uploads,        \* number of uploads run_job has made to the metrics key
    before,         \* the value at the metrics key when run_job started
    resp,           \* what the last reader call returned
    documents,      \* DocumentStore._documents, in corpus order
    last_search     \* the last call of DocumentStore.search and what it returned

vars == <<bucket_exists, object, store_up, events, ansi, pc, part_file,
          uploads, before, resp, documents, last_search>>

----------------------------------------------------------------------------
(* Bounds of the model *)

MaxLines == 2
MaxEvents == 2
MaxDocs == 3
MaxTopK == 3
MaxScore == 1

----------------------------------------------------------------------------
(* Optional values *)

None == <<>>
Some(v) == <<v>>
IsNone(o) == o = <<>>
Get(o, default) == IF o = <<>> THEN default ELSE o[1]

SeqsUpTo(S, n) == UNION {[1..k -> S] : k \in 0..n}

----------------------------------------------------------------------------
(* datetime.date: fromisoformat / isoformat / ordering *)

IsLeap(y) == (y % 4 = 0) /\ ((y % 100 # 0) \/ (y % 400 = 0))

DaysInMonth(y, m) ==
    IF m = 2 THEN (IF IsLeap(y) THEN 29 ELSE 28)
    ELSE IF m \in {4, 6, 9, 11} THEN 30 ELSE 31

DaysBeforeYear(y) ==
    (y - 1) * 365 + ((y - 1) \div 4) - ((y - 1) \div 100) + ((y - 1) \div 400)

RECURSIVE DaysBeforeMonth(_, _)
DaysBeforeMonth(y, m) ==
    IF m = 1 THEN 0 ELSE DaysBeforeMonth(y, m - 1) + DaysInMonth(y, m - 1)

\* the text has the shape YYYY-MM-DD and names a day of the calendar
ValidDateText(t) ==
    /\ Len(t) = 3
    /\ t[1] \in 1..9999
    /\ t[2] \in 1..12
    /\ t[3] \in 1..DaysInMonth(t[1], t[2])

ToOrdinal(t) == DaysBeforeYear(t[1]) + DaysBeforeMonth(t[1], t[2]) + t[3]

\* date.fromisoformat(text): [ok |-> FALSE] stands for ValueError
fromisoformat(t) ==
    IF ValidDateText(t) THEN [ok |-> TRUE, date |-> ToOrdinal(t)]
    ELSE [ok |-> FALSE, date |-> 0]

RECURSIVE YearFrom(_, _)
YearFrom(n, y) == IF DaysBeforeYear(y + 1) >= n THEN y ELSE YearFrom(n, y + 1)

RECURSIVE MonthFrom(_, _, _)
MonthFrom(y, doy, m) ==
    IF doy <= DaysBeforeMonth(y, m) + DaysInMonth(y, m) THEN m
    ELSE MonthFrom(y, doy, m + 1)

\* date.isoformat()
isoformat(n) ==
    LET y == YearFrom(n, (n \div 366) + 1)
        doy == n - DaysBeforeYear(y)
        m == MonthFrom(y, doy, 1)
    IN  <<y, m, doy - DaysBeforeMonth(y, m)>>

RECURSIVE MinOf(_)
MinOf(s) ==
    IF Len(s) = 1 THEN s[1]
    ELSE LET r == MinOf(Tail(s)) IN IF s[1] <= r THEN s[1] ELSE r

RECURSIVE MaxOf(_)
MaxOf(s) ==
    IF Len(s) = 1 THEN s[1]
    ELSE LET r == MaxOf(Tail(s)) IN IF s[1] >= r THEN s[1] ELSE r

----------------------------------------------------------------------------
(* The metrics object: newline-delimited JSON *)

\* a JSON object with the DailyMetric keys, each of which may be missing
Row(d, t, c, u) ==
    [event_date |-> d, event_type |-> t, event_count |-> c, unique_users |-> u]

EmptyRow == Row(None, None, None, None)

\* a line of text: blank (whitespace only), not valid JSON, or a JSON object
BlankLine == [kind |-> "blank", obj |-> EmptyRow]
BadLine == [kind |-> "bad", obj |-> EmptyRow]
JsonLine(r) == [kind |-> "json", obj |-> r]

\* json.loads(line): [ok |-> FALSE] stands for json.JSONDecodeError
json_loads(line) ==
    IF line.kind = "json" THEN [ok |-> TRUE, value |-> line.obj]
    ELSE [ok |-> FALSE, value |-> EmptyRow]

----------------------------------------------------------------------------
(* storage.py: S3Storage *)

\* S3Storage.download_text: get_object raises when the store cannot be
\* reached, the bucket does not exist or the key holds no object
download_text(up, bucket, obj) ==
    IF ~up THEN [ok |-> FALSE, error |-> "StoreUnavailable", text |-> <<>>]
    ELSE IF ~bucket THEN [ok |-> FALSE, error |-> "NoSuchBucket", text |-> <<>>]
    ELSE IF IsNone(obj) THEN [ok |-> FALSE, error |-> "NoSuchKey", text |-> <<>>]
    ELSE [ok |-> TRUE, error |-> "", text |-> obj[1]]

----------------------------------------------------------------------------
(* analytics.py: AnalyticsService *)

RECURSIVE ParseLines(_, _)
\* the loop of load_metrics over text.splitlines(); rows parsed so far in acc
ParseLines(lines, acc) ==
    IF lines = <<>> THEN [ok |-> TRUE, error |-> "", rows |-> acc]
    ELSE IF Head(lines).kind = "blank" THEN ParseLines(Tail(lines), acc)
    ELSE LET p == json_loads(Head(lines))
         IN  IF p.ok THEN ParseLines(Tail(lines), Append(acc, p.value))
             ELSE [ok |-> FALSE, error |-> "JSONDecodeError", rows |-> <<>>]

\* a variant that catches the missing key only
SwallowedOnlyNoSuchKey(error) == error = "NoSuchKey"

\* the except clause of load_metrics: which download errors are swallowed
SwallowedByLoad(error) == TRUE

\* AnalyticsService.load_metrics
load_metrics(up, bucket, obj) ==
    LET d == download_text(up, bucket, obj)
    IN  IF ~d.ok
        THEN IF SwallowedByLoad(d.error)
             THEN [ok |-> TRUE, error |-> "", rows |-> <<>>]
             ELSE [ok |-> FALSE, error |-> d.error, rows |-> <<>>]
        ELSE ParseLines(d.text, <<>>)

MetricsSummary(total, types, dates, users) ==
    [total_events |-> total, event_types |-> types, dates |-> dates,
     daily_unique_users_sum |-> users]

\* a variant that defaults a missing key only: row.get("event_type", "unknown")
EventTypeDefaulted(row) ==
    IF IsNone(row.event_type) THEN "unknown" ELSE row.event_type[1]

\* event_type = row.get("event_type") or "unknown"
EventTypeOf(row) ==
    IF IsNone(row.event_type) \/ row.event_type[1] = "" THEN "unknown"
    ELSE row.event_type[1]

\* the dates list after one more row
DatesAfter(dates, row) ==
    IF IsNone(row.event_date) \/ row.event_date[1] = <<>> THEN dates
    ELSE LET p == fromisoformat(row.event_date[1])
         IN  IF p.ok THEN Append(dates, p.date) ELSE dates

\* event_types[event_type] = event_types.get(event_type, 0) + count
TypesAfter(types, et, count) ==
    IF et \in DOMAIN types THEN [types EXCEPT ![et] = @ + count]
    ELSE types @@ (et :> count)

\* a variant that takes the first and last date, as if the rows were sorted
DateRangeFirstLast(dates) ==
    IF dates = <<>> THEN None
    ELSE Some([start |-> isoformat(dates[1]), end |-> isoformat(dates[Len(dates)])])

\* date_range of summary: None, or start = min(dates), end = max(dates)
DateRange(dates) ==
    IF dates = <<>> THEN None
    ELSE Some([start |-> isoformat(MinOf(dates)), end |-> isoformat(MaxOf(dates))])

\* a variant that leaves a row without a parseable date out of the totals
CountOfDatedRow(row) ==
    IF IsNone(row.event_date) \/ ~ValidDateText(row.event_date[1]) THEN 0
    ELSE Get(row.event_count, 0)

\* count = int(row.get("event_count", 0))
CountOf(row) == Get(row.event_count, 0)

\* unique_users = int(row.get("unique_users", 0))
UniqueUsersOf(row) == Get(row.unique_users, 0)

RECURSIVE SummaryLoop(_, _, _, _, _)
\* the for loop of summary
SummaryLoop(rows, total, users, types, dates) ==
    IF rows = <<>> THEN MetricsSummary(total, types, DateRange(dates), users)
    ELSE LET row == Head(rows)
             count == CountOf(row)
             unique_users == UniqueUsersOf(row)
         IN  SummaryLoop(Tail(rows), total + count, users + unique_users,
                         TypesAfter(types, EventTypeOf(row), count),
                         DatesAfter(dates, row))

EmptyTypes == [t \in {} |-> 0]
NoSummary == MetricsSummary(0, EmptyTypes, None, 0)

\* AnalyticsService.summary
summary(up, bucket, obj) ==
    LET l == load_metrics(up, bucket, obj)
    IN  IF l.ok THEN [ok |-> TRUE, error |-> "",
                      value |-> SummaryLoop(l.rows, 0, 0, EmptyTypes, <<>>)]
        ELSE [ok |-> FALSE, error |-> l.error, value |-> NoSummary]

----------------------------------------------------------------------------
(* storage.py: the writes of S3Storage *)

\* S3Storage.ensure_bucket: head_bucket, and create_bucket when it is missing;
\* an unreachable store makes the call raise
ensure_bucket(up, bucket) ==
    IF up THEN [ok |-> TRUE, bucket |-> TRUE] ELSE [ok |-> FALSE, bucket |-> bucket]

\* a variant that appends the body to the value the key holds
put_object_append(old, body) == Some(Get(old, <<>>) \o body)

\* client.upload_file / put_object: the body becomes the value of the key
put_object(old, body) == Some(body)

----------------------------------------------------------------------------
(* jobs/transform_events.py *)

\* the text of a raw event's timestamp: date text, hour, optional zone offset
\* in hours ("2026-01-30T10:00:00Z" is TsText(<<2026, 1, 30>>, 10, Some(0)))
TsText(d, h, z) == [date |-> d, hour |-> h, tz |-> z]

RawEvent(u, t, ts) == [user_id |-> u, event_type |-> t, timestamp |-> ts]

\* spark.read.json: the schema is inferred from the records of the file
InferSchema(evs) == UNION {DOMAIN evs[i] : i \in DOMAIN evs}

\* to_timestamp(col, "yyyy-MM-dd'T'HH:mm:ssX"): the instant in hours, session
\* time zone UTC; None when the text does not match the pattern
to_timestamp(ts) ==
    IF ValidDateText(ts.date) /\ ts.hour \in 0..23 /\ ~IsNone(ts.tz)
    THEN Some(ToOrdinal(ts.date) * 24 + ts.hour - ts.tz[1])
    ELSE None

\* to_date(event_ts): the calendar day of the instant in the session time zone
to_date(instant) == IF IsNone(instant) THEN None ELSE Some(instant[1] \div 24)

\* the grouping key of groupBy("event_date", "event_type")
GroupKey(e) == <<to_date(to_timestamp(e.timestamp)), e.event_type>>

\* orderBy("event_date", "event_type"): ascending, nulls first
TypeOrder == <<"page_view", "purchase">>
TypeRank(t) == CHOOSE i \in DOMAIN TypeOrder : TypeOrder[i] = t
KeyLE(a, b) ==
    \/ IsNone(a[1]) /\ ~IsNone(b[1])
    \/ /\ IsNone(a[1]) = IsNone(b[1])
       /\ \/ Get(a[1], 0) < Get(b[1], 0)
          \/ Get(a[1], 0) = Get(b[1], 0) /\ TypeRank(a[2]) <= TypeRank(b[2])

RECURSIVE SortKeys(_)
SortKeys(K) ==
    IF K = {} THEN <<>>
    ELSE LET k == CHOOSE x \in K : \A y \in K : KeyLE(x, y)
         IN  <<k>> \o SortKeys(K \ {k})

\* a variant whose event_count counts the distinct users of the group
GroupRowDistinct(evs, k) ==
    LET members == {i \in DOMAIN evs : GroupKey(evs[i]) = k}
    IN  [event_date |-> k[1], event_type |-> k[2],
         event_count |-> Cardinality({evs[i].user_id : i \in members}),
         unique_users |-> Cardinality({evs[i].user_id : i \in members})]

\* count("*") and approx_count_distinct("user_id") of one group
GroupRow(evs, k) ==
    LET members == {i \in DOMAIN evs : GroupKey(evs[i]) = k}
    IN  [event_date |-> k[1], event_type |-> k[2],
         event_count |-> Cardinality(members),
         unique_users |-> Cardinality({evs[i].user_id : i \in members})]

\* the rows of the aggregated DataFrame
Aggregate(evs) ==
    LET keys == SortKeys({GroupKey(evs[i]) : i \in DOMAIN evs})
    IN  [j \in DOMAIN keys |-> GroupRow(evs, keys[j])]

\* transform_events: building the DataFrame resolves its columns against the
\* inferred schema (AnalysisException when one is missing); nothing is computed
transform_events(evs) ==
    IF {"timestamp", "event_type", "user_id"} \subseteq InferSchema(evs)
    THEN [ok |-> TRUE, error |-> ""]
    ELSE [ok |-> FALSE, error |-> "AnalysisException"]

\* Spark's JSON writer: a date is written as text, a null column is left out
ToJsonLine(r) ==
    JsonLine(Row(IF IsNone(r.event_date) THEN None
                 ELSE Some(isoformat(r.event_date[1])),
                 Some(r.event_type), Some(r.event_count), Some(r.unique_users)))

\* write_metrics_jsonl: the write runs the plan; under ANSI mode a timestamp
\* that does not parse raises, otherwise it is null
write_metrics_jsonl(evs, ansiOn) ==
    IF ansiOn /\ \E i \in DOMAIN evs : IsNone(to_timestamp(evs[i].timestamp))
    THEN [ok |-> FALSE, error |-> "CANNOT_PARSE_TIMESTAMP", text |-> <<>>]
    ELSE LET agg == Aggregate(evs)
         IN  [ok |-> TRUE, error |-> "",
              text |-> [j \in DOMAIN agg |-> ToJsonLine(agg[j])]]

----------------------------------------------------------------------------
(* rag.py: DocumentStore *)

\* A *.md file is the set of its words that are not English stop words; the
\* files come in the order of sorted(docs_dir.glob("*.md")), and a document's
\* doc_id is its place in that order.  A similarity score is one of the
\* levels 0..MaxScore of the interval [0, 1].

Document(i, terms) == [doc_id |-> i, terms |-> terms]

\* DocumentStore._load_documents: the documents in file order; fitting the
\* vectorizer raises ValueError when the files leave an empty vocabulary
load_documents(files) ==
    IF files # <<>> /\ UNION {files[i] : i \in DOMAIN files} = {}
    THEN [ok |-> FALSE, documents |-> <<>>]
    ELSE [ok |-> TRUE, documents |-> [i \in DOMAIN files |-> Document(i, files[i])]]

\* cosine_similarity(query_vec, matrix).flatten(): one score per document, 0
\* exactly for the documents that share no vocabulary term with the query
PossibleScores(docs, query) ==
    {sc \in [DOMAIN docs -> 0..MaxScore] :
        \A i \in DOMAIN docs : (sc[i] = 0) <=> (docs[i].terms \cap query = {})}

\* a variant that puts an item before the items of equal score
InsertBeforeTies(ranked, item) ==
    LET n == Cardinality({j \in DOMAIN ranked : ranked[j][2] > item[2]})
    IN  SubSeq(ranked, 1, n) \o <<item>> \o SubSeq(ranked, n + 1, Len(ranked))

\* one step of sorted(..., key=score, reverse=True): the sort is stable, an
\* item goes after the items of greater or equal score that precede it
InsertRanked(ranked, item) ==
    LET n == Cardinality({j \in DOMAIN ranked : ranked[j][2] >= item[2]})
    IN  SubSeq(ranked, 1, n) \o <<item>> \o SubSeq(ranked, n + 1, Len(ranked))

RECURSIVE SortedByScore(_, _, _)
\* ranked = sorted(enumerate(scores), key=lambda item: item[1], reverse=True)
SortedByScore(scores, i, ranked) ==
    IF i > Len(scores) THEN ranked
    ELSE SortedByScore(scores, i + 1, InsertRanked(ranked, <<i, scores[i]>>))

\* DocumentResult, without title and snippet
DocumentResult(doc, score) == [doc_id |-> doc.doc_id, score |-> score]

\* DocumentStore.search, given the scores of the query; top_k >= 1
search(docs, scores, top_k) ==
    IF docs = <<>> THEN <<>>
    ELSE LET ranked == SortedByScore(scores, 1, <<>>)
             n == IF top_k < Len(ranked) THEN top_k ELSE Len(ranked)
         IN  [j \in 1..n |-> DocumentResult(docs[ranked[j][1]], ranked[j][2])]

----------------------------------------------------------------------------
(* Inputs *)

\* words of the test documents
Terms == {"latency", "purchase"}

Users == {"u1", "u2"}
EventTypes == {TypeOrder[i] : i \in DOMAIN TypeOrder}

\* "2026-01-30T10:00:00Z", "2026-01-31T23:00:00-05" and "2026-01-30T10:00:00"
Timestamps ==
    {TsText(<<2026, 1, 30>>, 10, Some(0)),
     TsText(<<2026, 1, 31>>, 23, Some(-5)),
     TsText(<<2026, 1, 30>>, 10, None)}

RawEvents == {RawEvent(u, t, ts) : u \in Users, t \in EventTypes, ts \in Timestamps}

\* "2025-12-31", "2026-01-30" and "2026-13-01"
DateTexts == {<<2025, 12, 31>>, <<2026, 1, 30>>, <<2026, 13, 1>>}

\* the numeric fields of a stored row: both missing, or event_count 2 and
\* unique_users 1
Rows ==
    {Row(d, t, n[1], n[2]) :
        d \in {None} \cup {Some(x) : x \in DateTexts},
        t \in {None, Some(""), Some("purchase")},
        n \in {<<None, None>>, <<Some(2), Some(1)>>}}

Lines == {BlankLine, BadLine} \cup {JsonLine(r) : r \in Rows}

\* a metrics object written by an earlier run
OldText == <<JsonLine(Row(Some(<<2026, 1, 29>>), Some("purchase"), Some(5), Some(3)))>>

----------------------------------------------------------------------------
(* State machine *)

Resp(op, status, error, rows, summ) ==
    [op |-> op, status |-> status, error |-> error, rows |-> rows, summary |-> summ]

NoResp == Resp("none", "", "", <<>>, NoSummary)

SearchCall(called, top_k, scores, results) ==
    [called |-> called, top_k |-> top_k, scores |-> scores, results |-> results]

NoSearch == SearchCall(FALSE, 0, <<>>, <<>>)

\* no document store is under study
NoDocs == documents = <<>> /\ last_search = NoSearch

\* the job side: a run of run_job on some input file, readers alongside
Init ==
    /\ store_up = TRUE
    /\ \E b \in BOOLEAN, o \in {None, Some(OldText)} :
          /\ (~b => o = None)
          /\ bucket_exists = b
          /\ object = o
          /\ before = o
    /\ events \in SeqsUpTo(RawEvents, MaxEvents)
    /\ ansi \in BOOLEAN
    /\ pc = "start"
    /\ part_file = None
    /\ uploads = 0
    /\ resp = NoResp
    /\ NoDocs

\* the read side: the service over a store in any state
InitSummary ==
    /\ store_up = TRUE
    /\ \/ bucket_exists = FALSE /\ object = None
       \/ bucket_exists = TRUE /\ object \in {None} \cup {Some(t) : t \in SeqsUpTo(Lines, MaxLines)}
    /\ before = object
    /\ events = <<>>
    /\ ansi = FALSE
    /\ pc = "idle"
    /\ part_file = None
    /\ uploads = 0
    /\ resp = NoResp
    /\ NoDocs

\* run_job, first statement of the try block
TransformEvents ==
    /\ pc = "start"
    /\ pc' = IF transform_events(events).ok THEN "transformed" ELSE "failed"
    /\ UNCHANGED <<bucket_exists, object, store_up, events, ansi, part_file,
                   uploads, before, resp,
                   documents, last_search>>

\* run_job: output_dir.mkdir and write_metrics_jsonl
WriteMetricsJsonl ==
    /\ pc = "transformed"
    /\ LET w == write_metrics_jsonl(events, ansi)
       IN  IF w.ok THEN pc' = "written" /\ part_file' = Some(w.text)
           ELSE pc' = "failed" /\ part_file' = None
    /\ UNCHANGED <<bucket_exists, object, store_up, events, ansi, uploads,
                   before, resp,
                   documents, last_search>>

\* storage.upload_file, first statement
EnsureBucket ==
    /\ pc = "written"
    /\ LET e == ensure_bucket(store_up, bucket_exists)
       IN  /\ pc' = IF e.ok THEN "ensured" ELSE "failed"
           /\ bucket_exists' = e.bucket
    /\ UNCHANGED <<object, store_up, events, ansi, part_file, uploads, before, resp,
                   documents, last_search>>

\* storage.upload_file, second statement
UploadFile ==
    /\ pc = "ensured"
    /\ IF store_up
       THEN /\ object' = put_object(object, part_file[1])
            /\ uploads' = uploads + 1
            /\ pc' = "done"
       ELSE /\ pc' = "failed"
            /\ UNCHANGED <<object, uploads>>
    /\ UNCHANGED <<bucket_exists, store_up, events, ansi, part_file, before, resp,
                   documents, last_search>>

\* a call of AnalyticsService.load_metrics
LoadMetrics ==
    /\ LET l == load_metrics(store_up, bucket_exists, object)
       IN  resp' = Resp("load_metrics", IF l.ok THEN "returned" ELSE "raised",
                        l.error, l.rows, NoSummary)
    /\ UNCHANGED <<bucket_exists, object, store_up, events, ansi, pc, part_file,
                   uploads, before,
                   documents, last_search>>

\* a call of AnalyticsService.summary
Summary ==
    /\ LET s == summary(store_up, bucket_exists, object)
       IN  resp' = Resp("summary", IF s.ok THEN "returned" ELSE "raised",
                        s.error, <<>>, s.value)
    /\ UNCHANGED <<bucket_exists, object, store_up, events, ansi, pc, part_file,
                   uploads, before,
                   documents, last_search>>

\* handle_errors: any exception of an endpoint becomes a 500 response
handle_errors(error) == Resp("http", "500", error, <<>>, NoSummary)

\* GET /analytics/metrics
analytics_metrics(up, bucket, obj) ==
    LET l == load_metrics(up, bucket, obj)
    IN  IF l.ok THEN Resp("http", "200", "", l.rows, NoSummary)
        ELSE handle_errors(l.error)

\* GET /analytics/summary
analytics_summary(up, bucket, obj) ==
    LET s == summary(up, bucket, obj)
    IN  IF s.ok THEN Resp("http", "200", "", <<>>, s.value)
        ELSE handle_errors(s.error)

AnalyticsMetrics ==
    /\ resp' = [analytics_metrics(store_up, bucket_exists, object)
                   EXCEPT !.op = "GET /analytics/metrics"]
    /\ UNCHANGED <<bucket_exists, object, store_up, events, ansi, pc, part_file,
                   uploads, before,
                   documents, last_search>>

AnalyticsSummary ==
    /\ resp' = [analytics_summary(store_up, bucket_exists, object)
                   EXCEPT !.op = "GET /analytics/summary"]
    /\ UNCHANGED <<bucket_exists, object, store_up, events, ansi, pc, part_file,
                   uploads, before,
                   documents, last_search>>

\* the store becomes unreachable (connectivity or authentication failure)
StoreFails ==
    /\ store_up
    /\ store_up' = FALSE
    /\ UNCHANGED <<bucket_exists, object, events, ansi, pc, part_file, uploads,
                   before, resp,
                   documents, last_search>>

StoreRecovers ==
    /\ ~store_up
    /\ store_up' = TRUE
    /\ UNCHANGED <<bucket_exists, object, events, ansi, pc, part_file, uploads,
                   before, resp,
                   documents, last_search>>

Next ==
    \/ TransformEvents
    \/ WriteMetricsJsonl
    \/ EnsureBucket
    \/ UploadFile
    \/ LoadMetrics
    \/ Summary

Spec == Init /\ [][Next]_vars

\* the read side over a reachable store
NextSummary ==
    \/ LoadMetrics
    \/ Summary
    \/ AnalyticsMetrics
    \/ AnalyticsSummary

SpecSummary == InitSummary /\ [][NextSummary]_vars

\* the read side over a store that may fail and recover
NextOutage ==
    \/ LoadMetrics
    \/ Summary
    \/ AnalyticsMetrics
    \/ AnalyticsSummary
    \/ StoreFails
    \/ StoreRecovers

SpecOutage == InitSummary /\ [][NextOutage]_vars

\* the document store after construction, over any small corpus
InitSearch ==
    /\ store_up = TRUE
    /\ bucket_exists = FALSE
    /\ object = None
    /\ before = None
    /\ events = <<>>
    /\ ansi = FALSE
    /\ pc = "idle"
    /\ part_file = None
    /\ uploads = 0
    /\ resp = NoResp
    /\ \E files \in SeqsUpTo(SUBSET Terms, MaxDocs) :
          /\ load_documents(files).ok
          /\ documents = load_documents(files).documents
    /\ last_search = NoSearch

\* a call of DocumentStore.search(query, top_k)
Search ==
    /\ \E query \in SUBSET Terms, top_k \in 1..MaxTopK :
          \E scores \in PossibleScores(documents, query) :
             last_search' = SearchCall(TRUE, top_k, scores,
                                       search(documents, scores, top_k))
    /\ UNCHANGED <<bucket_exists, object, store_up, events, ansi, pc, part_file,
                   uploads, before, resp, documents>>

NextSearch == Search

SpecSearch == InitSearch /\ [][NextSearch]_vars

----------------------------------------------------------------------------
(* Reference notions the properties are stated with *)

\* the rows of the well-formed, non-blank lines of a text, in order
RECURSIVE JsonRowsOf(_)
JsonRowsOf(text) ==
    IF text = <<>> THEN <<>>
    ELSE IF Head(text).kind = "json" THEN <<Head(text).obj>> \o JsonRowsOf(Tail(text))
    ELSE JsonRowsOf(Tail(text))

RECURSIVE SumOver(_, _)
\* the sum of f[i] over the finite index set I
SumOver(f, I) ==
    IF I = {} THEN 0
    ELSE LET i == CHOOSE x \in I : TRUE IN f[i] + SumOver(f, I \ {i})

FieldOr0(o) == IF Len(o) = 0 THEN 0 ELSE o[1]

\* the key under which a row counts in event_types
TypeKey(row) ==
    IF row.event_type \in {<<>>, <<"">>} THEN "unknown" ELSE row.event_type[1]

\* YYYY-MM-DD texts compare as (year, month, day)
TextLE(a, b) ==
    \/ a[1] < b[1]
    \/ a[1] = b[1] /\ a[2] < b[2]
    \/ a[1] = b[1] /\ a[2] = b[2] /\ a[3] <= b[3]

\* the event_date texts of the rows that parse as an ISO-8601 date
ParseableDates(rows) ==
    {rows[i].event_date[1] : i \in {j \in DOMAIN rows :
        rows[j].event_date # <<>> /\ ValidDateText(rows[j].event_date[1])}}

KeyAbsent == ~bucket_exists \/ object = <<>>

\* what the service loads in the current state of the store
Loaded == load_metrics(store_up, bucket_exists, object)

\* the rows a summary was folded from, when the store is reachable: those of
\* the stored lines (the call raises unless every non-blank line is JSON)
StoredRows == IF KeyAbsent THEN <<>> ELSE JsonRowsOf(object[1])

\* the last call was summary() and it returned
SummaryReturned == resp.op = "summary" /\ resp.status = "returned"

----------------------------------------------------------------------------
(* Properties of the read side, checked under SpecSummary, where the store  *)
(* is reachable and does not change: resp is what the call returns in the   *)
(* current state of the store.                                              *)

\* C1: with no object at the metrics key (the bucket missing included),
\* load_metrics returns an empty list and raises nothing, and summary returns
\* total_events = 0, no event types, daily_unique_users_sum = 0, no date range.
C1_MissingKeyIsEmpty ==
    (store_up /\ KeyAbsent) =>
        /\ resp.op = "load_metrics" => (resp.status = "returned" /\ resp.rows = <<>>)
        /\ resp.op = "summary" =>
              /\ resp.status = "returned"
              /\ resp.summary.total_events = 0
              /\ DOMAIN resp.summary.event_types = {}
              /\ resp.summary.daily_unique_users_sum = 0
              /\ resp.summary.dates = <<>>

C1_Witness ==
    /\ store_up /\ ~bucket_exists
    /\ resp.op = "summary" /\ resp.status = "returned"
    /\ resp.summary.total_events = 0

\* C2 (as claimed): a line that is not valid JSON is dropped; load_metrics
\* returns the rows of the remaining well-formed non-blank lines, in order,
\* and does not raise.
C2_MalformedLineDropped ==
    [][(store_up /\ ~KeyAbsent /\ resp' # resp /\ resp'.op = "load_metrics") =>
          (resp'.status = "returned" /\ resp'.rows = JsonRowsOf(object[1]))]_vars

\* C3: total_events is the sum of event_count and daily_unique_users_sum the
\* sum of unique_users over all loaded rows, a missing field counting 0,
\* whatever the rows' event_date.
C3_TotalsAreSums ==
    SummaryReturned =>
        LET rows == StoredRows
        IN  /\ resp.summary.total_events =
                   SumOver([i \in DOMAIN rows |-> FieldOr0(rows[i].event_count)],
                           DOMAIN rows)
            /\ resp.summary.daily_unique_users_sum =
                   SumOver([i \in DOMAIN rows |-> FieldOr0(rows[i].unique_users)],
                           DOMAIN rows)

\* two rows with counts, one without a date and one whose date does not parse
C3_Witness ==
    /\ store_up /\ ~KeyAbsent
    /\ Len(object[1]) = 2
    /\ object[1][1] = JsonLine(Row(<<>>, <<"purchase">>, <<2>>, <<1>>))
    /\ object[1][2] = JsonLine(Row(<< <<2026, 13, 1>> >>, <<"purchase">>, <<2>>, <<1>>))
    /\ resp.op = "summary" /\ resp.status = "returned"
    /\ resp.summary.total_events = 4
    /\ resp.summary.daily_unique_users_sum = 2

\* C4: event_types maps each distinct type to the sum of event_count of the
\* rows of that type, a missing or empty type counting as "unknown"; so
\* total_events is the sum of the values of event_types.
C4_EventTypesPartitionTotal ==
    SummaryReturned =>
        LET rows == StoredRows
            types == resp.summary.event_types
        IN  /\ DOMAIN types = {TypeKey(rows[i]) : i \in DOMAIN rows}
            /\ \A t \in DOMAIN types :
                   types[t] =
                       SumOver([i \in DOMAIN rows |-> FieldOr0(rows[i].event_count)],
                               {i \in DOMAIN rows : TypeKey(rows[i]) = t})
            /\ resp.summary.total_events = SumOver(types, DOMAIN types)

\* a row with an empty type and a row of type purchase
C4_Witness ==
    /\ store_up /\ ~KeyAbsent
    /\ \E i \in DOMAIN object[1] :
          object[1][i].kind = "json" /\ object[1][i].obj.event_type = <<"">>
          /\ object[1][i].obj.event_count = <<2>>
    /\ resp.op = "summary" /\ resp.status = "returned"
    /\ DOMAIN resp.summary.event_types = {"unknown", "purchase"}
    /\ resp.summary.event_types["unknown"] = 2
    /\ resp.summary.total_events = 4

\* C5: date_range is absent iff no loaded row has a parseable event_date;
\* otherwise start is the least and end the greatest parseable date, so
\* start <= end, and dates that do not parse play no part.
C5_DateRangeIsMinMax ==
    SummaryReturned =>
        LET P == ParseableDates(StoredRows)
            r == resp.summary.dates
        IN  /\ (r = <<>>) <=> (P = {})
            /\ r # <<>> =>
                  /\ r[1].start \in P /\ \A d \in P : TextLE(r[1].start, d)
                  /\ r[1].end \in P /\ \A d \in P : TextLE(d, r[1].end)
                  /\ TextLE(r[1].start, r[1].end)

\* rows dated 2026-01-30 then 2025-12-31: the range runs from the second
C5_Witness ==
    /\ store_up /\ ~KeyAbsent
    /\ Len(object[1]) = 2
    /\ object[1][1].kind = "json" /\ object[1][1].obj.event_date = << <<2026, 1, 30>> >>
    /\ object[1][2].kind = "json" /\ object[1][2].obj.event_date = << <<2025, 12, 31>> >>
    /\ resp.op = "summary" /\ resp.status = "returned"
    /\ resp.summary.dates = <<[start |-> <<2025, 12, 31>>, end |-> <<2026, 1, 30>>]>>

----------------------------------------------------------------------------
(* Properties of the job, checked under Spec *)

\* the timestamp text matches yyyy-MM-dd'T'HH:mm:ssX
WellFormedTs(ts) ==
    /\ Len(ts.date) = 3 /\ ts.date[2] \in 1..12
    /\ ts.date[3] \in 1..DaysInMonth(ts.date[1], ts.date[2])
    /\ ts.hour \in 0..23
    /\ ts.tz # <<>>

AllWellFormed == \A i \in DOMAIN events : WellFormedTs(events[i].timestamp)

NextDayText(d) ==
    IF d[3] < DaysInMonth(d[1], d[2]) THEN <<d[1], d[2], d[3] + 1>>
    ELSE IF d[2] < 12 THEN <<d[1], d[2] + 1, 1>>
    ELSE <<d[1] + 1, 1, 1>>

PrevDayText(d) ==
    IF d[3] > 1 THEN <<d[1], d[2], d[3] - 1>>
    ELSE IF d[2] > 1 THEN <<d[1], d[2] - 1, DaysInMonth(d[1], d[2] - 1)>>
    ELSE <<d[1] - 1, 12, 31>>

\* the calendar date, in UTC, of the instant a well-formed timestamp names
\* (offsets of less than a day)
UtcDateText(ts) ==
    LET h == ts.hour - ts.tz[1]
    IN  IF h >= 24 THEN NextDayText(ts.date)
        ELSE IF h < 0 THEN PrevDayText(ts.date)
        ELSE ts.date

\* the date part of the timestamp text as written
WrittenDateText(ts) == ts.date

UtcPair(e) == <<UtcDateText(e.timestamp), e.event_type>>
WrittenPair(e) == <<WrittenDateText(e.timestamp), e.event_type>>

\* the uploaded object holds one JSON row per pair of Pair(_) over the
\* events, carrying the number of events of the pair
OneRowPerPair(text, Pair(_)) ==
    LET pairs == {Pair(events[i]) : i \in DOMAIN events}
    IN  /\ Len(text) = Cardinality(pairs)
        /\ \A j \in DOMAIN text : text[j].kind = "json"
        /\ {<<text[j].obj.event_date, text[j].obj.event_type>> : j \in DOMAIN text}
              = {<< <<p[1]>>, <<p[2]>> >> : p \in pairs}
        /\ \A j \in DOMAIN text : \A p \in pairs :
              (text[j].obj.event_date = <<p[1]>> /\ text[j].obj.event_type = <<p[2]>>)
                 => text[j].obj.event_count =
                       <<Cardinality({i \in DOMAIN events : Pair(events[i]) = p})>>
        /\ SumOver([j \in DOMAIN text |-> FieldOr0(text[j].obj.event_count)],
                   DOMAIN text) = Len(events)

\* C6 (as claimed): for well-formed events the uploaded object holds exactly
\* one row per distinct (date part of the timestamp, event_type) pair, with
\* event_count the number of events of the pair.
C6_OneRowPerWrittenDate ==
    (pc = "done" /\ AllWellFormed) => OneRowPerPair(object[1], WrittenPair)

\* C6 (amended): for well-formed events the uploaded object holds exactly one
\* row per distinct (UTC calendar date of the timestamp, event_type) pair, with
\* event_count the number of events of the pair; the counts sum to the number
\* of events.
C6_OneRowPerUtcDate ==
    (pc = "done" /\ AllWellFormed) => OneRowPerPair(object[1], UtcPair)

\* two events of one type by one user, written 2026-01-31T23:00:00-05 and
\* 2026-01-30T10:00:00Z: rows for 2026-01-30 and 2026-02-01
C6_Witness ==
    /\ pc = "done" /\ AllWellFormed
    /\ Len(events) = 2
    /\ events[1].timestamp.tz = <<-5>> /\ events[2].timestamp.tz = <<0>>
    /\ events[1].event_type = events[2].event_type
    /\ Len(object[1]) = 2
    /\ object[1][1].obj.event_date = << <<2026, 1, 30>> >>
    /\ object[1][2].obj.event_date = << <<2026, 2, 1>> >>
    /\ object[1][1].obj.event_count = <<1>>

\* C7 (as claimed): if a timestamp of the input fails to parse, the run fails
\* and uploads nothing: the value at the metrics key stays what it was.
C7_BadTimestampFailsRun ==
    (\E i \in DOMAIN events : ~WellFormedTs(events[i].timestamp)) =>
        /\ pc # "done"
        /\ uploads = 0
        /\ object = before

\* what a reader gets from a stored value whose lines are all JSON rows
RowsOfValue(o) == IF o = <<>> THEN <<>> ELSE [j \in DOMAIN o[1] |-> o[1][j].obj]

\* C8: run_job uploads at most once, only when the part file is written, and
\* the upload replaces the whole value: the key holds the value from before
\* the run or the complete part file, and every load_metrics alongside the
\* run returns the rows of one of the two.
C8_UploadIsAtomic ==
    /\ uploads <= 1
    /\ uploads = 0 => (object = before /\ pc # "done")
    /\ uploads = 1 => (pc = "done" /\ part_file # <<>> /\ object = part_file)
    /\ resp.op = "load_metrics" =>
          /\ resp.status = "returned"
          /\ \/ resp.rows = RowsOfValue(before)
             \/ part_file # <<>> /\ uploads = 1 /\ resp.rows = RowsOfValue(part_file)

\* a reader loaded the earlier object while the job ran; the job then
\* replaced it with its own rows
C8_Witness ==
    /\ pc = "done" /\ uploads = 1
    /\ before = Some(OldText)
    /\ Len(part_file[1]) = 2
    /\ object = part_file
    /\ resp.op = "load_metrics" /\ resp.rows = RowsOfValue(before)

\* C9 (as claimed): run_job on an input of zero events completes and uploads
\* an empty object, from which load_metrics returns an empty list.
C9_EmptyInputUploadsEmptyObject ==
    (events = <<>> /\ pc \in {"done", "failed"}) =>
        /\ pc = "done"
        /\ object = <<<<>>>>
        /\ Loaded.ok /\ Loaded.rows = <<>>

----------------------------------------------------------------------------
(* Store failures, checked under SpecOutage *)

\* C10 (as claimed): a request to /analytics/metrics or /analytics/summary
\* made while the store cannot be reached is answered 500, unlike the
\* "no data" answer given when the key is merely absent.
C10_StoreFailureIs500 ==
    [][(~store_up /\ resp' # resp
          /\ resp'.op \in {"GET /analytics/metrics", "GET /analytics/summary"}) =>
          resp'.status = "500"]_vars

----------------------------------------------------------------------------
(* Properties of the document search, checked under SpecSearch *)

\* C11: for every query and every top_k >= 1, search returns exactly
\* min(top_k, number of documents) results (none for an empty corpus), each a
\* different document with its own score, in order of non-increasing score,
\* documents of equal score in corpus order, and no document left out scores
\* higher than a document returned.
C11_SearchIsStableTopK ==
    last_search.called =>
        LET r == last_search.results
            sc == last_search.scores
            k == last_search.top_k
            n == Len(documents)
            returned == {r[j].doc_id : j \in DOMAIN r}
        IN  /\ Len(r) = (IF k <= n THEN k ELSE n)
            /\ \A j \in DOMAIN r : r[j].doc_id \in 1..n /\ r[j].score = sc[r[j].doc_id]
            /\ Cardinality(returned) = Len(r)
            /\ \A i, j \in DOMAIN r :
                  i < j => \/ r[i].score > r[j].score
                           \/ r[i].score = r[j].score /\ r[i].doc_id < r[j].doc_id
            /\ \A d \in (1..n) \ returned : \A j \in DOMAIN r : sc[d] <= r[j].score

\* a corpus of three documents scoring 1, 0, 1 and top_k = 2: the first
\* document, then the third; the second is left out
C11_Witness ==
    /\ last_search.called
    /\ Len(documents) = 3
    /\ last_search.top_k = 2
    /\ last_search.scores = <<1, 0, 1>>
    /\ Len(last_search.results) = 2
    /\ last_search.results[1].doc_id = 1
    /\ last_search.results[2].doc_id = 3

====
